---- MODULE Spec2Model ----
(***************************************************************************)
(* Query completion of chaosctl (pkg/chaosctl/common/ctrlclient.go).       *)
(*                                                                         *)
(* Go strings on which the code computes (path segments, field names,      *)
(* argument values, completions) are sequences of one-character strings,   *)
(* so that HasPrefix, Join, Plural and ToCamel are computed.  Type names   *)
(* and kinds are only compared for equality and are TLA+ strings.          *)
(***************************************************************************)
EXTENDS Integers, Sequences, FiniteSets, TLC

VARIABLES schema, live, request, pc, stack, heap, result, ret, lastList, lastPerm

vars == <<schema, live, request, pc, stack, heap, result, ret, lastList, lastPerm>>

Range(s) == {s[i] : i \in 1..Len(s)}

Front(s) == SubSeq(s, 1, Len(s) - 1)

Last(s) == s[Len(s)]

(***************************************************************************)
(* String helpers of the Go standard library and of the imported packages. *)
(***************************************************************************)

NamespaceKey == <<"n","a","m","e","s","p","a","c","e">>

NamespaceType == "Namespace"

\* strings.HasPrefix
HasPrefix(s, prefix) ==
  /\ Len(prefix) <= Len(s)
  /\ SubSeq(s, 1, Len(prefix)) = prefix

\* strings.Join(elems, sep)
RECURSIVE Join(_, _)
Join(elems, sep) ==
  IF Len(elems) = 0 THEN <<>>
  ELSE IF Len(elems) = 1 THEN elems[1]
  ELSE elems[1] \o sep \o Join(Tail(elems), sep)

\* pluralize.Client.Plural on a regular word: the rule  s?$ -> "s".
Plural(word) ==
  IF Len(word) = 0 THEN word
  ELSE IF Last(word) = "s" THEN word
  ELSE word \o <<"s">>

LowerCase == <<"a","b","c","d","e","f","g","h","i","j","k","l","m",
               "n","o","p","q","r","s","t","u","v","w","x","y","z">>

UpperCase == <<"A","B","C","D","E","F","G","H","I","J","K","L","M",
               "N","O","P","Q","R","S","T","U","V","W","X","Y","Z">>

Digits == <<"0","1","2","3","4","5","6","7","8","9">>

ToUpper(c) ==
  IF \E i \in 1..26 : LowerCase[i] = c
  THEN UpperCase[CHOOSE i \in 1..26 : LowerCase[i] = c]
  ELSE c

\* strcase.ToCamel: the first letter, and a letter after a digit or after one
\* of the delimiters _ - . and space, is upper-cased; delimiters are dropped.
RECURSIVE toCamelInitCase(_, _)
toCamelInitCase(s, capNext) ==
  IF Len(s) = 0 THEN <<>>
  ELSE LET v == s[1]
           isLow == v \in Range(LowerCase)
           isCap == v \in Range(UpperCase)
           isNum == v \in Range(Digits)
       IN  IF isLow \/ isCap
           THEN <<IF capNext THEN ToUpper(v) ELSE v>> \o toCamelInitCase(Tail(s), FALSE)
           ELSE IF isNum
           THEN <<v>> \o toCamelInitCase(Tail(s), TRUE)
           ELSE toCamelInitCase(Tail(s), v \in {"_", " ", "-", "."})

ToCamel(s) == toCamelInitCase(s, TRUE)

\* fmt.Sprintf("%d", v) for v >= 0
RECURSIVE FormatNat(_)
FormatNat(n) ==
  IF n < 10 THEN <<Digits[n + 1]>>
  ELSE FormatNat(n \div 10) \o <<Digits[(n % 10) + 1]>>

FormatInt(n) == IF n < 0 THEN <<"-">> \o FormatNat(0 - n) ELSE FormatNat(n)

\* strconv.FormatBool
FormatBool(b) == IF b THEN <<"t","r","u","e">> ELSE <<"f","a","l","s","e">>

\* fmt.Sprintf("%f", v): six decimals; the value is held in millionths.
RECURSIVE PadLeft(_, _)
PadLeft(s, n) == IF Len(s) >= n THEN s ELSE PadLeft(<<"0">> \o s, n)

FormatFloat(micro) ==
  LET a == IF micro < 0 THEN 0 - micro ELSE micro
  IN  (IF micro < 0 THEN <<"-">> ELSE <<>>)
        \o FormatNat(a \div 1000000) \o <<".">> \o PadLeft(FormatNat(a % 1000000), 6)

(***************************************************************************)
(* Outcomes of a Go call: a normal return with a value, a returned error,  *)
(* or a run-time panic (index out of range, nil dereference).              *)
(***************************************************************************)

Ok(v) == [tag |-> "ok", val |-> v]

Err == [tag |-> "err", val |-> <<>>]

Panic == [tag |-> "panic", val |-> <<>>]

(***************************************************************************)
(* fullPermutation (ctrlclient.go:295-321)                                 *)
(***************************************************************************)

\* comb.New(n, k) ... c.Next() ... c.Indexes(): the k-subsets of 1..n as
\* increasing index sequences, in lexicographic order, first index >= lo.
RECURSIVE Combinations(_, _, _)
Combinations(lo, n, k) ==
  IF k = 0 THEN << <<>> >>
  ELSE IF lo > n - k + 1 THEN <<>>
  ELSE [i \in 1..Len(Combinations(lo + 1, n, k - 1)) |->
          <<lo>> \o Combinations(lo + 1, n, k - 1)[i]]
       \o Combinations(lo + 1, n, k)

\* The prefix reversal the permutator applies to the slice it permutes.
Flip(s, n) == [i \in 1..Len(s) |-> IF i <= n THEN s[n + 1 - i] ELSE s[i]]

\* prmt.New(v) ... p.Next(): the sizes of the successive prefix reversals
\* that enumerate the orderings of n elements.
RECURSIVE FlipSizes(_)
RECURSIVE RepeatFlips(_, _)
FlipSizes(n) ==
  IF n <= 1 THEN <<>> ELSE FlipSizes(n - 1) \o RepeatFlips(n, n - 1)

RepeatFlips(n, times) ==
  IF times = 0 THEN <<>>
  ELSE <<n>> \o FlipSizes(n - 1) \o RepeatFlips(n, times - 1)

RECURSIVE ApplyFlips(_, _)
ApplyFlips(s, flips) ==
  IF Len(flips) = 0 THEN <<s>>
  ELSE <<s>> \o ApplyFlips(Flip(s, flips[1]), Tail(flips))

\* for p.Next() { results = append(results, copy of substrs) } (lines 314-316)
PermutatorNext(substrs) == ApplyFlips(substrs, FlipSizes(Len(substrs)))

\* for c.Next() { fill substrs by indexes; for p.Next() {...} } (lines 308-317)
RECURSIVE PermuteCombinations(_, _)
PermuteCombinations(strs, combs) ==
  IF Len(combs) = 0 THEN <<>>
  ELSE PermutatorNext([j \in 1..Len(combs[1]) |-> strs[combs[1][j]]])
         \o PermuteCombinations(strs, Tail(combs))

SubsetSizesAll(strs) == [i \in 1..Len(strs) |-> i]

\* The subset sizes of the outer loop: i ranges over the indexes of strs[1:],
\* k = i + 1 (lines 298-303).
SubsetSizes(strs) == [i \in 1..(Len(strs) - 1) |-> i]

RECURSIVE PermuteSizes(_, _)
PermuteSizes(strs, sizes) ==
  IF Len(sizes) = 0 THEN <<>>
  ELSE PermuteCombinations(strs, Combinations(1, Len(strs), sizes[1]))
         \o PermuteSizes(strs, Tail(sizes))

\* strs[1:] of an empty (nil) slice is out of range: the call panics.
fullPermutation(strs) ==
  IF Len(strs) = 0 THEN Panic
  ELSE Ok(PermuteSizes(strs, SubsetSizes(strs)))

(***************************************************************************)
(* listArguments (ctrlclient.go:156-205).  A decoded response is a tree of *)
(* reflect values: [kind |-> "Ptr", elem |-> <<v>> or <<>> (nil)],         *)
(* [kind |-> "Struct", fields |-> <<[name, val], ...>>],                   *)
(* [kind |-> "Slice", elems |-> <<v, ...>>], the graphql scalars String,   *)
(* Boolean, Int, Float, and "Other" for a value of any other type.  A      *)
(* *Query built from a path is the sequence of its node names, the head    *)
(* being the node and the tail its only child; nil is the empty sequence.  *)
(***************************************************************************)

HasField(object, name) == \E i \in 1..Len(object.fields) : object.fields[i].name = name

\* reflect.Value.FieldByName
FieldByName(object, name) ==
  object.fields[CHOOSE i \in 1..Len(object.fields) : object.fields[i].name = name].val

IsScalarKind(kind) == kind \in {"String", "Boolean", "Int", "Float"}

\* The type switch of lines 188-199.
StringForm(object) ==
  CASE object.kind = "String" -> object.str
    [] object.kind = "Boolean" -> FormatBool(object.b)
    [] object.kind = "Int" -> FormatInt(object.n)
    [] object.kind = "Float" -> FormatFloat(object.micro)

\* Lines 201-204.
EmitIfPrefix(val, startWith) ==
  IF HasPrefix(val, startWith) THEN Ok(<<val>>) ELSE Ok(<<>>)

RECURSIVE listArguments(_, _, _)
RECURSIVE listSlice(_, _, _, _)
listArguments(object, resource, startWith) ==
  CASE object.kind = "Ptr" ->
         IF Len(object.elem) = 0
         THEN Panic  \* value.Elem().Interface() of a nil pointer
         ELSE listArguments(object.elem[1], resource, startWith)
    [] object.kind = "Struct" ->
         IF Len(resource) = 0
         THEN Panic  \* resource.Name with resource == nil
         ELSE IF ~HasField(object, ToCamel(resource[1]))
         THEN Err
         ELSE listArguments(FieldByName(object, ToCamel(resource[1])),
                            Tail(resource), startWith)
    [] object.kind = "Slice" ->
         listSlice(object.elems, resource, startWith, <<>>)
    [] OTHER ->
         IF Len(resource) # 0 THEN Err
         ELSE IF ~IsScalarKind(object.kind) THEN Err
         ELSE EmitIfPrefix(StringForm(object), startWith)

\* The loop of lines 172-178, slice accumulated so far in acc.
listSlice(elems, resource, startWith, acc) ==
  IF Len(elems) = 0 THEN Ok(acc)
  ELSE LET r == listArguments(elems[1], resource, startWith)
       IN  IF r.tag # "ok" THEN r
           ELSE listSlice(Tail(elems), resource, startWith, acc \o r.val)

(***************************************************************************)
(* Go slices of strings.  heap maps an array identity to its backing array *)
(* (whose length is the capacity); a slice is [arr, len] over it.  Two     *)
(* slices over one array share its elements.                               *)
(***************************************************************************)

Contents(h, s) == SubSeq(h[s.arr], 1, s.len)

Cap(h, s) == Len(h[s.arr])

NewArr(h) == IF DOMAIN h = {} THEN 1
             ELSE (CHOOSE m \in DOMAIN h : \A k \in DOMAIN h : k <= m) + 1

\* runtime.growslice for a slice of strings below 256 elements.
GrowCap(cap) == IF cap = 0 THEN 1 ELSE 2 * cap

Zeroes(n) == [i \in 1..n |-> <<>>]

\* append(s, x): in place when the capacity allows, else into a new array.
GoAppend(h, s, x) ==
  IF s.len < Cap(h, s)
  THEN [heap |-> [h EXCEPT ![s.arr][s.len + 1] = x],
        slice |-> [arr |-> s.arr, len |-> s.len + 1]]
  ELSE LET id == NewArr(h)
           grown == Contents(h, s) \o <<x>> \o Zeroes(GrowCap(Cap(h, s)) - s.len - 1)
       IN  [heap |-> (id :> grown) @@ h,
            slice |-> [arr |-> id, len |-> s.len + 1]]

\* The capacity of a slice built by n appends to make([]string, 0).
RECURSIVE CapAfterAppends(_)
CapAfterAppends(n) ==
  IF n = 0 THEN 0
  ELSE IF n - 1 < CapAfterAppends(n - 1) THEN CapAfterAppends(n - 1)
  ELSE GrowCap(CapAfterAppends(n - 1))

Restrict(h, ids) == [i \in (DOMAIN h) \cap ids |-> h[i]]

(***************************************************************************)
(* Schema model: schema maps a type name to [kind, fields]; a field is     *)
(* [name, type, args] with args the declared argument names; a type        *)
(* reference is [name, ofType] with ofType <<>> or <<reference>>.          *)
(***************************************************************************)

ScalarKind == "SCALAR"

EnumKind == "ENUM"

ObjectKind == "OBJECT"

ListKind == "LIST"

NonNullKind == "NON_NULL"

\* Schema.MustGetType
HasType(name) == name \in DOMAIN schema

\* Schema.resolve: unwraps List / NonNull down to the named type.
RECURSIVE resolve(_)
resolve(ref) ==
  IF ref.name # ""
  THEN IF HasType(ref.name) THEN Ok(ref.name) ELSE Err
  ELSE IF Len(ref.ofType) = 0 THEN Err
  ELSE resolve(ref.ofType[1])

FieldsOf(typename) == schema[typename].fields

(***************************************************************************)
(* The live service.  live maps each list-query path the service answers   *)
(* to [query, resp]: the *Query that ParseQuery builds for the path and    *)
(* the decoded response of Client.Query.  Any other path fails in          *)
(* ParseQuery, Reflect or Query.                                           *)
(***************************************************************************)

Answers(path) == path \in DOMAIN live

(***************************************************************************)
(* AutoCompleteContext (ctrlclient.go:41-91)                               *)
(***************************************************************************)

BudgetAtEntry == 6

\* NewAutoCompleteContext; the literal []string{NamespaceKey, namespace}
\* has length 2 and capacity 2.
NewAutoCompleteContext(h, namespace, level, completeLeaves) ==
  LET id == NewArr(h)
  IN  [heap |-> (id :> <<NamespaceKey, namespace>>) @@ h,
       ctx |-> [maxRecurLevel |-> level,
                visitedTypes |-> {},
                completeLeaves |-> completeLeaves,
                query |-> [arr |-> id, len |-> 2]]]

IsComplete(ctx) == ctx.maxRecurLevel = 0

VisitedNever(ctx, name) == FALSE

Visited(ctx, name) == name \in ctx.visitedTypes

NextLevelSame(ctx) == ctx.maxRecurLevel

\* maxRecurLevel of the context Next returns (line 86).
NextLevel(ctx) == ctx.maxRecurLevel - 1

\* visitedTypes of the context Next returns (lines 66-74).
NextTypes(ctx, typename) == {typename} \cup ctx.visitedTypes

\* query of the context Next returns (lines 70-83): a fresh slice grown by
\* appending the parent's segments, fieldName and a non-empty arg.
NextQuery(h, ctx, fieldName, arg) ==
  Contents(h, ctx.query) \o <<fieldName>> \o (IF Len(arg) # 0 THEN <<arg>> ELSE <<>>)

ContextNext(h, ctx, typename, fieldName, arg) ==
  LET id == NewArr(h)
      query == NextQuery(h, ctx, fieldName, arg)
  IN  [heap |-> (id :> (query \o Zeroes(CapAfterAppends(Len(query)) - Len(query)))) @@ h,
       ctx |-> [maxRecurLevel |-> NextLevel(ctx),
                visitedTypes |-> NextTypes(ctx, typename),
                completeLeaves |-> ctx.completeLeaves,
                query |-> [arr |-> id, len |-> Len(query)]]]

(***************************************************************************)
(* CtrlClient.ListArguments (ctrlclient.go:118-154)                        *)
(***************************************************************************)

\* Returns the heap after the call, the outcome, the path handed to
\* ParseQuery (sent) and the prefix handed to listArguments (startWith).
\* listQuery shares queryStr's array: line 126 writes the plural into it and,
\* len(listQuery) being below the capacity, line 127 appends in place, over
\* the last element of queryStr, which line 148 then reads back.
ListArguments(h, queryStr, argumentName) ==
  IF queryStr.len < 2
  THEN [heap |-> h, out |-> Panic, sent |-> <<>>, startWith |-> <<>>]
  ELSE LET listQuery == [arr |-> queryStr.arr, len |-> queryStr.len - 1]
           h1 == [h EXCEPT ![listQuery.arr][listQuery.len] = Plural(@)]
           a == GoAppend(h1, listQuery, argumentName)
           path == Contents(a.heap, a.slice)
           startWith == a.heap[queryStr.arr][queryStr.len]
       IN  [heap |-> a.heap,
            out |-> IF ~Answers(path) THEN Err
                    ELSE listArguments(live[path].resp, live[path].query, startWith),
            sent |-> path,
            startWith |-> startWith]

(***************************************************************************)
(* Schemas and live services the client is constructed against.            *)
(***************************************************************************)

s_name == <<"n","a","m","e">>

s_action == <<"a","c","t","i","o","n">>

s_spec == <<"s","p","e","c">>

s_kind == <<"k","i","n","d">>

s_pod == <<"p","o","d">>

s_pods == <<"p","o","d","s">>

s_ip == <<"i","p">>

s_label == <<"l","a","b","e","l">>

s_ns1 == <<"n","s","1">>

s_names == <<"n","a","m","e","s">>

s_p1 == <<"p","1">>

s_p2 == <<"p","2">>

s_name1 == <<"n","a","m","e","1">>

s_next == <<"n","e","x","t">>

s_self == <<"s","e","l","f">>

s_bad == <<"b","a","d">>

s_p == <<"p">>

Named(n) == [kind |-> "", name |-> n, ofType |-> <<>>]

ListOf(ref) == [kind |-> ListKind, name |-> "", ofType |-> <<ref>>]

NonNullOf(ref) == [kind |-> NonNullKind, name |-> "", ofType |-> <<ref>>]

Field(n, t, a) == [name |-> n, type |-> t, args |-> a]

Object(fs) == [kind |-> ObjectKind, fields |-> fs]

Scalar == [kind |-> ScalarKind, fields |-> <<>>]

Enum == [kind |-> EnumKind, fields |-> <<>>]

Str(x) == [kind |-> "String", str |-> x]

Struct(fs) == [kind |-> "Struct", fields |-> fs]

Member(n, v) == [name |-> n, val |-> v]

Slice(es) == [kind |-> "Slice", elems |-> es]

Ptr(v) == [kind |-> "Ptr", elem |-> <<v>>]

NilPtr == [kind |-> "Ptr", elem |-> <<>>]

\* The response to  query { namespace(ns: ...) { <res> { name } } }.
NamespaceResponse(member) == Ptr(Struct(<<Member(ToCamel(NamespaceKey), Slice(<<Struct(<<member>>)>>))>>))

Named1(v) == Struct(<<Member(ToCamel(s_name), v)>>)

ListPath(ns, res) == <<NamespaceKey, ns, res, s_name>>

ListQuery(res) == <<NamespaceKey, res, s_name>>

\* A namespace with an enum, a scalar and a nested object; pods are listed
\* by name at the root and under spec; Pod refers back to Spec.
MainSchema ==
  [Namespace |-> Object(<<Field(s_name, NonNullOf(Named("String")), <<>>),
                          Field(s_action, Named("Action"), <<>>),
                          Field(s_spec, Named("Spec"), <<>>),
                          Field(s_label, Named("String"), <<s_name>>),
                          Field(s_pod, ListOf(NonNullOf(Named("Pod"))), <<s_name>>)>>),
   Spec |-> Object(<<Field(s_kind, Named("String"), <<>>),
                     Field(s_pod, ListOf(Named("Pod")), <<s_name>>)>>),
   Pod |-> Object(<<Field(s_name, Named("String"), <<>>),
                    Field(s_ip, Named("String"), <<>>),
                    Field(s_spec, Named("Spec"), <<>>)>>),
   String |-> Scalar,
   Action |-> Enum]

PodList(names) ==
  Slice([i \in 1..Len(names) |-> Named1(Str(names[i]))])

MainLive ==
  \* pods p1, p2 under namespace ns1
  (ListPath(s_ns1, s_pods) :>
     [query |-> ListQuery(s_pods),
      resp |-> NamespaceResponse(Member(ToCamel(s_pods), PodList(<<s_p1, s_p2>>)))])
  @@
  \* the name of namespace names
  (<<NamespaceKey, s_names, s_name>> :>
     [query |-> <<NamespaceKey, s_name>>,
      resp |-> NamespaceResponse(Member(ToCamel(s_name), Str(s_names)))])
  @@
  (ListPath(s_names, Plural(s_spec)) :>
     [query |-> ListQuery(Plural(s_spec)),
      resp |-> NamespaceResponse(Member(ToCamel(Plural(s_spec)),
                                        PodList(<<s_p1, s_name1, s_names>>)))])
  @@
  \* a struct that lacks the selected field
  (ListPath(s_ns1, <<"a","s">>) :>
     [query |-> ListQuery(<<"a","s">>),
      resp |-> NamespaceResponse(Member(ToCamel(s_pods), PodList(<<s_p1>>)))])
  @@
  \* a leaf of an unsupported kind
  (ListPath(s_ns1, <<"b","s">>) :>
     [query |-> ListQuery(<<"b","s">>),
      resp |-> NamespaceResponse(Member(<<"B","s">>, Slice(<<Named1([kind |-> "Other"])>>)))])
  @@
  \* a scalar where the query still selects a field
  (ListPath(s_ns1, <<"c","s">>) :>
     [query |-> ListQuery(<<"c","s">>),
      resp |-> NamespaceResponse(Member(<<"C","s">>, Str(s_p1)))])
  @@
  \* a struct where the query selects nothing further
  (ListPath(s_ns1, <<"d","s">>) :>
     [query |-> ListQuery(<<"d","s">>),
      resp |-> NamespaceResponse(Member(<<"D","s">>, Slice(<<Named1(Named1(Str(s_p1)))>>)))])
  @@
  \* a list of structs where the query selects nothing further
  (ListPath(s_ns1, <<"e","s">>) :>
     [query |-> ListQuery(<<"e","s">>),
      resp |-> NamespaceResponse(Member(<<"E","s">>, Slice(<<Named1(PodList(<<s_p1>>))>>)))])
  @@
  \* a nil pointer where the query selects nothing further
  (ListPath(s_ns1, <<"f","s">>) :>
     [query |-> ListQuery(<<"f","s">>),
      resp |-> NamespaceResponse(Member(<<"F","s">>, Slice(<<Named1(NilPtr)>>)))])
  @@
  \* leaves of every supported scalar kind, and a pointer to a scalar
  (ListPath(s_ns1, <<"g","s">>) :>
     [query |-> ListQuery(<<"g","s">>),
      resp |-> NamespaceResponse(Member(<<"G","s">>,
                 Slice(<<Named1([kind |-> "Int", n |-> 12]),
                         Named1([kind |-> "Boolean", b |-> TRUE]),
                         Named1(Ptr(Str(s_p2))),
                         Named1([kind |-> "Float", micro |-> 1500000]),
                         Named1(Slice(<<Str(s_p1), Str(s_name1)>>))>>)))])

\* Only fields with arguments at the root.
ArgsOnlySchema ==
  [Namespace |-> Object(<<Field(s_pod, ListOf(Named("Pod")), <<s_name>>)>>),
   Pod |-> Object(<<Field(s_name, Named("String"), <<>>),
                    Field(s_ip, Named("String"), <<>>),
                    Field(s_kind, Named("String"), <<>>)>>),
   String |-> Scalar]

ArgsOnlyLive ==
  (<<NamespaceKey, s_names, s_name>> :>
     [query |-> <<NamespaceKey, s_name>>,
      resp |-> NamespaceResponse(Member(ToCamel(s_name), Slice(<<Str(s_names), Str(s_name1)>>)))])

\* A chain of object types deeper than the budget, with self references
\* and a reference back to the root type.
DeepSchema ==
  [Namespace |-> Object(<<Field(s_next, Named("T1"), <<>>)>>),
   T1 |-> Object(<<Field(s_self, ListOf(Named("T1")), <<>>),
                   Field(s_name, Named("String"), <<>>),
                   Field(s_next, Named("T2"), <<>>)>>),
   T2 |-> Object(<<Field(s_next, Named("T3"), <<>>),
                   Field(s_kind, Named("String"), <<>>),
                   Field(s_ip, Named("String"), <<>>)>>),
   T3 |-> Object(<<Field(s_next, Named("T4"), <<>>),
                   Field(s_self, Named("Namespace"), <<>>)>>),
   T4 |-> Object(<<Field(s_next, Named("T5"), <<>>)>>),
   T5 |-> Object(<<Field(s_name, Named("String"), <<>>),
                   Field(s_next, Named("T6"), <<>>)>>),
   T6 |-> Object(<<Field(s_name, Named("String"), <<>>)>>),
   String |-> Scalar]

\* A field whose named type is itself a List type.
ListRootSchema ==
  [Namespace |-> Object(<<Field(s_name, Named("String"), <<>>),
                          Field(s_bad, NonNullOf(Named("Weird")), <<>>)>>),
   Weird |-> [kind |-> ListKind, fields |-> <<>>],
   String |-> Scalar]

\* A type reference with neither a name nor a wrapped reference.
MalformedSchema ==
  [Namespace |-> Object(<<Field(s_name, Named("String"), <<>>),
                          Field(s_bad, [kind |-> ListKind, name |-> "", ofType |-> <<>>], <<>>)>>),
   String |-> Scalar]

\* A schema without the Namespace type.
NoNamespaceSchema ==
  [Query |-> Object(<<Field(s_name, Named("String"), <<>>)>>),
   String |-> Scalar]

NoLive == [path \in {} |-> 0]

Fixtures ==
  { [schema |-> MainSchema, live |-> MainLive],
    [schema |-> ArgsOnlySchema, live |-> ArgsOnlyLive],
    [schema |-> DeepSchema, live |-> NoLive],
    [schema |-> ListRootSchema, live |-> NoLive],
    [schema |-> MalformedSchema, live |-> NoLive],
    [schema |-> NoNamespaceSchema, live |-> NoLive] }

(***************************************************************************)
(* State.  request names the call in progress or ended ("none" before).    *)
(* pc is the client's position: "idle" after construction, then            *)
(* "running" inside CompleteQuery, and "returned", "error" or "panic" once *)
(* the request has ended.  stack holds the activations of completeQuery,   *)
(* innermost last: ctx and root are the parameters; idx is the position of *)
(* the loop over root.Fields, args and argIdx that of the loop over args;  *)
(* phase is "entry" before line 223, "fields" in the loop of line 235 and  *)
(* "args" in the loop of line 269; leaves and trunks are the locals.       *)
(* listed records the fields whose ListArguments call returned a value.    *)
(* ret, lastList and lastPerm record the last return of completeQuery and  *)
(* the last calls of ListArguments and fullPermutation.                    *)
(***************************************************************************)

MaxNames == 3

LeafNames == {<<"a">>, <<"b">>, <<"c">>, <<"d">>}

RequestNamespaces == {s_ns1, s_names}

\* The paths of stand-alone ListArguments calls: a resource followed by a
\* prefix (the form line 117 documents), a path ending in the resource, and
\* a path too short to hold a resource.
ListRequests ==
  {<<NamespaceKey, s_ns1, res, prefix>> :
      res \in {s_pod, <<"a">>, <<"b">>, <<"c">>, <<"d">>, <<"e">>, <<"f">>, <<"g">>},
      prefix \in {<<>>, s_p}}
  \cup {<<NamespaceKey, s_ns1, s_pods>>, <<s_pod>>}

NoRet == [fresh |-> FALSE, level |-> 0, root |-> "", val |-> <<>>,
          leaves |-> <<>>, trunks |-> <<>>, completeLeaves |-> FALSE,
          listed |-> {}, object |-> FALSE]

NoList == [valid |-> FALSE, queryStr |-> <<>>, argumentName |-> <<>>,
           sent |-> <<>>, startWith |-> <<>>, out |-> Err, answered |-> FALSE,
           resp |-> NilPtr]

NoPerm == [valid |-> FALSE, strs |-> <<>>, out |-> Err]

ListRecord(queryStr, argumentName, r) ==
  [valid |-> TRUE, queryStr |-> queryStr, argumentName |-> argumentName,
   sent |-> r.sent, startWith |-> r.startWith, out |-> r.out,
   answered |-> Answers(r.sent),
   resp |-> IF Answers(r.sent) THEN live[r.sent].resp ELSE NilPtr]

Init ==
  /\ \E f \in Fixtures : schema = f.schema /\ live = f.live
  /\ request = "none"
  /\ pc = "idle"
  /\ stack = <<>>
  /\ heap = <<>>
  /\ result = <<>>
  /\ ret = NoRet
  /\ lastList = NoList
  /\ lastPerm = NoPerm

Top == stack[Len(stack)]

Frame(ctx, root) ==
  [ctx |-> ctx, root |-> root, phase |-> "entry", idx |-> 1,
   args |-> <<>>, argIdx |-> 1, leaves |-> <<>>, trunks |-> <<>>, listed |-> {}]

CurrentField(frame) == FieldsOf(frame.root)[frame.idx]

\* CompleteQuery (lines 207-219): the request enters with a root context.
CompleteQuery(namespace, completeLeaves) ==
  /\ pc = "idle"
  /\ IF ~HasType(NamespaceType)
     THEN /\ pc' = "error"
          /\ UNCHANGED <<stack, heap>>
     ELSE LET n == NewAutoCompleteContext(heap, namespace, BudgetAtEntry, completeLeaves)
          IN  /\ pc' = "running"
              /\ heap' = n.heap
              /\ stack' = <<Frame(n.ctx, NamespaceType)>>
  /\ request' = "CompleteQuery"
  /\ UNCHANGED <<schema, live, result, ret, lastList, lastPerm>>

\* What the caller does with subQueries: lines 251-261 for a field without
\* arguments, lines 275-278 for one argument value.
Deliver(parent, val) ==
  LET name == CurrentField(parent).name
  IN  IF parent.phase = "fields"
      THEN IF Len(val) = 0
           THEN [parent EXCEPT !.leaves = @ \o <<name>>, !.idx = @ + 1]
           ELSE [parent EXCEPT
                   !.trunks = @ \o [i \in 1..Len(val) |-> Join(<<name, val[i]>>, <<"/">>)],
                   !.idx = @ + 1]
      ELSE [parent EXCEPT
              !.trunks = @ \o [i \in 1..Len(val) |->
                                 Join(<<name, parent.args[parent.argIdx], val[i]>>, <<"/">>)],
              !.argIdx = @ + 1]

\* completeQuery returns val, nil error: the activation is popped and the
\* caller, or CompleteQuery (lines 214-218), takes the value.
Return(val, object) ==
  /\ ret' = [fresh |-> TRUE, level |-> Top.ctx.maxRecurLevel, root |-> Top.root,
             val |-> val, leaves |-> Top.leaves, trunks |-> Top.trunks,
             completeLeaves |-> Top.ctx.completeLeaves, listed |-> Top.listed,
             object |-> object]
  /\ heap' = Restrict(heap, (DOMAIN heap) \ {Top.ctx.query.arr})
  /\ IF Len(stack) = 1
     THEN /\ pc' = "returned"
          /\ result' = val
          /\ stack' = <<>>
     ELSE /\ stack' = SubSeq(stack, 1, Len(stack) - 2)
                        \o <<Deliver(stack[Len(stack) - 1], val)>>
          /\ UNCHANGED <<pc, result>>

\* An error return: every caller up to CompleteQuery returns nil, err.
Fail ==
  /\ pc' = "error"
  /\ stack' = <<>>
  /\ heap' = <<>>
  /\ ret' = NoRet
  /\ UNCHANGED result

\* A run-time panic ends the process where it stands.
Crash ==
  /\ pc' = "panic"
  /\ ret' = NoRet
  /\ UNCHANGED <<stack, result>>

\* Lines 223-232.
Enter ==
  /\ pc = "running"
  /\ Top.phase = "entry"
  /\ IF IsComplete(Top.ctx) THEN Return(<<>>, FALSE)
     ELSE IF schema[Top.root].kind \in {ScalarKind, EnumKind} THEN Return(<<>>, FALSE)
     ELSE IF schema[Top.root].kind \in {ListKind, NonNullKind} THEN Fail
     ELSE /\ stack' = [stack EXCEPT ![Len(stack)].phase = "fields"]
          /\ ret' = NoRet
          /\ UNCHANGED <<pc, heap, result>>
  /\ UNCHANGED <<schema, live, request, lastList, lastPerm>>

AtField ==
  /\ pc = "running"
  /\ Top.phase = "fields"
  /\ Top.idx <= Len(FieldsOf(Top.root))

\* Lines 236-239: the field's type does not resolve.
ResolveError ==
  /\ AtField
  /\ resolve(CurrentField(Top).type).tag = "err"
  /\ Fail
  /\ UNCHANGED <<schema, live, request, lastList, lastPerm>>

SubType(frame) == resolve(CurrentField(frame).type).val

\* Lines 241-243: continue.
SkipVisited ==
  /\ AtField
  /\ resolve(CurrentField(Top).type).tag = "ok"
  /\ Visited(Top.ctx, SubType(Top))
  /\ stack' = [stack EXCEPT ![Len(stack)].idx = @ + 1]
  /\ ret' = NoRet
  /\ UNCHANGED <<schema, live, request, pc, heap, result, lastList, lastPerm>>

\* Line 246: the recursive call for a field without arguments.
RecurseField ==
  /\ AtField
  /\ resolve(CurrentField(Top).type).tag = "ok"
  /\ ~Visited(Top.ctx, SubType(Top))
  /\ Len(CurrentField(Top).args) = 0
  /\ LET n == ContextNext(heap, Top.ctx, SubType(Top), CurrentField(Top).name, <<>>)
     IN  /\ heap' = n.heap
         /\ stack' = stack \o <<Frame(n.ctx, SubType(Top))>>
  /\ ret' = NoRet
  /\ UNCHANGED <<schema, live, request, pc, result, lastList, lastPerm>>

\* Lines 264-267: the values of the field's first argument.
ListFieldArguments ==
  /\ AtField
  /\ resolve(CurrentField(Top).type).tag = "ok"
  /\ ~Visited(Top.ctx, SubType(Top))
  /\ Len(CurrentField(Top).args) # 0
  /\ LET a == GoAppend(heap, Top.ctx.query, CurrentField(Top).name)
         r == ListArguments(a.heap, a.slice, CurrentField(Top).args[1])
     IN  /\ lastList' = ListRecord(Contents(a.heap, a.slice), CurrentField(Top).args[1], r)
         /\ IF r.out.tag = "err" THEN Fail
            ELSE IF r.out.tag = "panic"
            THEN /\ Crash
                 /\ heap' = Restrict(r.heap, DOMAIN heap)
            ELSE /\ heap' = Restrict(r.heap, DOMAIN heap)
                 /\ stack' = [stack EXCEPT ![Len(stack)].phase = "args",
                                           ![Len(stack)].args = r.out.val,
                                           ![Len(stack)].argIdx = 1,
                                           ![Len(stack)].listed =
                                              IF Len(r.out.val) = 0 THEN @
                                              ELSE @ \cup {CurrentField(Top).name}]
                 /\ ret' = NoRet
                 /\ UNCHANGED <<pc, result>>
  /\ UNCHANGED <<schema, live, request, lastPerm>>

\* Line 270: the recursive call for one argument value.
RecurseArgument ==
  /\ pc = "running"
  /\ Top.phase = "args"
  /\ Top.argIdx <= Len(Top.args)
  /\ LET n == ContextNext(heap, Top.ctx, SubType(Top), CurrentField(Top).name,
                          Top.args[Top.argIdx])
     IN  /\ heap' = n.heap
         /\ stack' = stack \o <<Frame(n.ctx, SubType(Top))>>
  /\ ret' = NoRet
  /\ UNCHANGED <<schema, live, request, pc, result, lastList, lastPerm>>

\* The loop of line 269 ends: the next field.
ArgumentsDone ==
  /\ pc = "running"
  /\ Top.phase = "args"
  /\ Top.argIdx > Len(Top.args)
  /\ stack' = [stack EXCEPT ![Len(stack)].phase = "fields",
                            ![Len(stack)].idx = @ + 1,
                            ![Len(stack)].args = <<>>,
                            ![Len(stack)].argIdx = 1]
  /\ ret' = NoRet
  /\ UNCHANGED <<schema, live, request, pc, heap, result, lastList, lastPerm>>

JoinAll(seqs, sep) == [i \in 1..Len(seqs) |-> Join(seqs[i], sep)]

AssembleTrunksFirst(leaves, trunks) == trunks \o leaves

\* Lines 282-292 with completeLeaves false.
Assemble(leaves, trunks) == leaves \o trunks

\* Lines 282-292 with completeLeaves true, perms being fullPermutation(leaves).
AssembleCombined(perms, trunks) == JoinAll(perms, <<",">>) \o trunks

\* Lines 282-292: the loop over the fields has ended.
Finish ==
  /\ pc = "running"
  /\ Top.phase = "fields"
  /\ Top.idx > Len(FieldsOf(Top.root))
  /\ IF ~Top.ctx.completeLeaves
     THEN /\ Return(Assemble(Top.leaves, Top.trunks), TRUE)
          /\ UNCHANGED lastPerm
     ELSE LET p == fullPermutation(Top.leaves)
          IN  /\ lastPerm' = [valid |-> TRUE, strs |-> Top.leaves, out |-> p]
              /\ IF p.tag = "panic" THEN Crash /\ UNCHANGED heap
                 ELSE Return(AssembleCombined(p.val, Top.trunks), TRUE)
  /\ UNCHANGED <<schema, live, request, lastList>>

\* ListArguments called on its own with a caller's slice.
CallListArguments(path, argumentName) ==
  /\ pc = "idle"
  /\ LET id == NewArr(heap)
         queryStr == [arr |-> id, len |-> Len(path)]
         r == ListArguments((id :> path) @@ heap, queryStr, argumentName)
     IN  /\ lastList' = ListRecord(path, argumentName, r)
         /\ heap' = r.heap
         /\ pc' = CASE r.out.tag = "ok" -> "returned"
                    [] r.out.tag = "err" -> "error"
                    [] OTHER -> "panic"
         /\ result' = r.out.val
  /\ request' = "ListArguments"
  /\ UNCHANGED <<schema, live, stack, ret, lastPerm>>

InjectiveSeqs(S, n) ==
  {q \in UNION {[1..k -> S] : k \in 0..n} : \A i, j \in 1..Len(q) : i # j => q[i] # q[j]}

\* fullPermutation called on its own.
CallFullPermutation(strs) ==
  /\ pc = "idle"
  /\ LET p == fullPermutation(strs)
     IN  /\ lastPerm' = [valid |-> TRUE, strs |-> strs, out |-> p]
         /\ pc' = IF p.tag = "ok" THEN "returned" ELSE "panic"
         /\ result' = JoinAll(p.val, <<",">>)
  /\ request' = "fullPermutation"
  /\ UNCHANGED <<schema, live, stack, heap, ret, lastList>>

Next ==
  \/ \E namespace \in RequestNamespaces, completeLeaves \in BOOLEAN :
        CompleteQuery(namespace, completeLeaves)
  \/ Enter
  \/ ResolveError
  \/ SkipVisited
  \/ RecurseField
  \/ ListFieldArguments
  \/ RecurseArgument
  \/ ArgumentsDone
  \/ Finish
  \/ \E path \in ListRequests : CallListArguments(path, s_name)
  \/ \E strs \in InjectiveSeqs(LeafNames, MaxNames) : CallFullPermutation(strs)

Spec == Init /\ [][Next]_vars

(***************************************************************************)
(* Reference notions the claims are stated with.                           *)
(***************************************************************************)

\* The scalar leaf values of a decoded response, in response order.
RECURSIVE LeafValues(_)
RECURSIVE LeafValuesOfAll(_)
LeafValues(object) ==
  CASE object.kind = "Ptr" ->
         IF Len(object.elem) = 0 THEN <<>> ELSE LeafValues(object.elem[1])
    [] object.kind = "Struct" ->
         LeafValuesOfAll([i \in 1..Len(object.fields) |-> object.fields[i].val])
    [] object.kind = "Slice" -> LeafValuesOfAll(object.elems)
    [] IsScalarKind(object.kind) -> <<StringForm(object)>>
    [] OTHER -> <<>>

LeafValuesOfAll(objects) ==
  IF Len(objects) = 0 THEN <<>>
  ELSE LeafValues(objects[1]) \o LeafValuesOfAll(Tail(objects))

\* A decoded response agrees with the query node it is walked against.
RECURSIVE Conforms(_, _)
Conforms(object, resource) ==
  CASE object.kind = "Ptr" ->
         Len(object.elem) = 1 /\ Conforms(object.elem[1], resource)
    [] object.kind = "Struct" ->
         /\ Len(resource) # 0
         /\ HasField(object, ToCamel(resource[1]))
         /\ Conforms(FieldByName(object, ToCamel(resource[1])), Tail(resource))
    [] object.kind = "Slice" ->
         \A i \in 1..Len(object.elems) : Conforms(object.elems[i], resource)
    [] OTHER -> Len(resource) = 0 /\ IsScalarKind(object.kind)

\* The first path segment of a completion: the field it continues with.
RECURSIVE FirstSegment(_)
FirstSegment(completion) ==
  IF Len(completion) = 0 \/ completion[1] = "/" THEN <<>>
  ELSE <<completion[1]>> \o FirstSegment(Tail(completion))

FieldNames(typename) == [j \in 1..Len(FieldsOf(typename)) |-> FieldsOf(typename)[j].name]

FieldIndex(typename, name) ==
  CHOOSE j \in 1..Len(FieldsOf(typename)) : FieldsOf(typename)[j].name = name

\* names holds declared field names of typename, in declaration order.
InDeclarationOrder(typename, names) ==
  /\ \A k \in 1..Len(names) : names[k] \in Range(FieldNames(typename))
  /\ \A k, l \in 1..Len(names) :
        k < l => FieldIndex(typename, names[k]) <= FieldIndex(typename, names[l])

Strictly(typename, names) ==
  \A k, l \in 1..Len(names) :
     k < l => FieldIndex(typename, names[k]) < FieldIndex(typename, names[l])

FirstSegments(completions) == [k \in 1..Len(completions) |-> FirstSegment(completions[k])]

\* The parts of a comma-joined completion.
RECURSIVE SplitCommas(_, _)
SplitCommas(s, acc) ==
  IF Len(s) = 0 THEN <<acc>>
  ELSE IF s[1] = "," THEN <<acc>> \o SplitCommas(Tail(s), <<>>)
  ELSE SplitCommas(Tail(s), acc \o <<s[1]>>)

(***************************************************************************)
(* Claims.                                                                 *)
(***************************************************************************)

\* C1: ListArguments(path, argName), called with a path whose final segment
\* is a resource name, queries the service with that path, the final
\* segment replaced by its plural and argName appended, and returns exactly
\* the values the service holds there, in source order.
C1_ListsUnderPluralOfFinalSegment ==
  (lastList.valid /\ Len(lastList.queryStr) >= 1) =>
     /\ lastList.sent = Front(lastList.queryStr)
                          \o <<Plural(Last(lastList.queryStr)), lastList.argumentName>>
     /\ lastList.answered => lastList.out = Ok(LeafValues(lastList.resp))

\* C2: the values ListArguments returns are exactly, in response order, the
\* scalar leaf values of the response that start with the prefix the caller
\* supplied as the last element of queryStr at the time of the call.
C2_FiltersByCallersPrefix ==
  (lastList.valid /\ lastList.out.tag = "ok") =>
     lastList.out.val =
        SelectSeq(LeafValues(lastList.resp),
                  LAMBDA v : HasPrefix(v, Last(lastList.queryStr)))

\* C3: once a context exists, its path segments and its visited-type set
\* stay as created: no step changes them for a context that remains.
C3_ContextsNeverMutated ==
  [][\A i \in 1..Len(stack) :
        i <= Len(stack') =>
          /\ stack'[i].ctx = stack[i].ctx
          /\ Contents(heap', stack'[i].ctx.query) = Contents(heap, stack[i].ctx.query)]_vars

\* C4, the levels: the activation at nesting level i holds budget
\* BudgetAtEntry - i, never below 0, so no branch nests deeper than
\* BudgetAtEntry levels; an activation entered with budget 0 returns the
\* empty result and no error.
C4_Levels ==
  /\ Len(stack) <= BudgetAtEntry + 1
  /\ \A i \in 1..Len(stack) :
        /\ stack[i].ctx.maxRecurLevel = BudgetAtEntry - (i - 1)
        /\ stack[i].ctx.maxRecurLevel >= 0
  /\ (ret.fresh /\ ret.level = 0) => (ret.val = <<>> /\ pc \in {"running", "returned"})

\* The position of an activation in its own code, and of the request in
\* the recursion: the positions of the activations, outermost first.
FramePosition(frame) ==
  <<IF frame.phase = "entry" THEN 0 ELSE 1,
    frame.idx,
    IF frame.phase = "args" THEN frame.argIdx ELSE 0>>

Position(stk) == [i \in 1..Len(stk) |-> FramePosition(stk[i])]

TripleLess(a, b) ==
  \/ a[1] < b[1]
  \/ a[1] = b[1] /\ a[2] < b[2]
  \/ a[1] = b[1] /\ a[2] = b[2] /\ a[3] < b[3]

\* Lexicographic order on positions; a proper prefix is smaller.
LexLess(a, b) ==
  \/ Len(a) < Len(b) /\ SubSeq(b, 1, Len(a)) = a
  \/ \E k \in 1..Len(a) :
        /\ k <= Len(b)
        /\ SubSeq(a, 1, k - 1) = SubSeq(b, 1, k - 1)
        /\ TripleLess(a[k], b[k])

\* C4: CompleteQuery terminates for every schema and live data, within the
\* levels of C4_Levels: every step of a running request moves its position
\* strictly forward in a bounded, well-ordered set.
C4_BoundedRecursion ==
  [][/\ C4_Levels'
     /\ \A i \in 1..Len(stack') :
           /\ stack'[i].idx <= Len(FieldsOf(stack'[i].root)) + 1
           /\ stack'[i].argIdx <= Len(stack'[i].args) + 1
     /\ (pc = "running" /\ pc' = "running") => LexLess(Position(stack), Position(stack'))]_vars

C4_BudgetExhausted ==
  /\ ret.fresh /\ ret.level = 0
  /\ pc = "running"
  /\ Len(stack) = BudgetAtEntry

\* C5: completeQuery never recurses into a field whose resolved type name is
\* in the context's visited set; such a field contributes neither a leaf nor
\* a trunk; a child's visited set is the parent's plus the entered type.
C5_NoRevisit ==
  /\ \A i \in 2..Len(stack) :
        /\ stack[i].root \notin stack[i - 1].ctx.visitedTypes
        /\ stack[i].ctx.visitedTypes = stack[i - 1].ctx.visitedTypes \cup {stack[i].root}
  /\ \A i \in 1..Len(stack) : \A j \in 1..Len(FieldsOf(stack[i].root)) :
        LET field == FieldsOf(stack[i].root)[j]
        IN  (/\ j <= stack[i].idx
             /\ resolve(field.type).tag = "ok"
             /\ resolve(field.type).val \in stack[i].ctx.visitedTypes)
            => /\ field.name \notin Range(stack[i].leaves)
               /\ field.name \notin Range(FirstSegments(stack[i].trunks))

C5_SkippedVisitedField ==
  /\ Len(stack) >= 2
  /\ \E j \in 1..Len(FieldsOf(Top.root)) :
        /\ j < Top.idx
        /\ resolve(FieldsOf(Top.root)[j].type).val \in Top.ctx.visitedTypes
  /\ Len(Top.leaves) + Len(Top.trunks) > 0

\* C6: the result of completeQuery on an Object type is the leaf group
\* followed by the trunk group, each in field declaration order, the trunks
\* of one field in the order of the child's result; with completeLeaves
\* false the leaf group is the leaf field names, one string each.
C6_LeavesThenTrunksInDeclarationOrder ==
  /\ \A i \in 1..Len(stack) :
        /\ InDeclarationOrder(stack[i].root, stack[i].leaves)
        /\ Strictly(stack[i].root, stack[i].leaves)
        /\ InDeclarationOrder(stack[i].root, FirstSegments(stack[i].trunks))
  /\ (ret.fresh /\ ret.object) =>
        /\ InDeclarationOrder(ret.root, ret.leaves)
        /\ Strictly(ret.root, ret.leaves)
        /\ InDeclarationOrder(ret.root, FirstSegments(ret.trunks))
        /\ Len(ret.val) >= Len(ret.trunks)
        /\ SubSeq(ret.val, Len(ret.val) - Len(ret.trunks) + 1, Len(ret.val)) = ret.trunks
        /\ \A k \in 1..(Len(ret.val) - Len(ret.trunks)) :
              Range(SplitCommas(ret.val[k], <<>>)) \subseteq Range(ret.leaves)
        /\ ~ret.completeLeaves =>
              SubSeq(ret.val, 1, Len(ret.val) - Len(ret.trunks)) = ret.leaves
  /\ (ret.fresh /\ Len(stack) > 0 /\ Len(ret.val) > 0) =>
        LET n == Len(ret.val)
            t == Top.trunks
            lead == IF Top.phase = "fields"
                    THEN <<FieldsOf(Top.root)[Top.idx - 1].name>>
                    ELSE <<CurrentField(Top).name, Top.args[Top.argIdx - 1]>>
        IN  /\ Len(t) >= n
            /\ \A k \in 1..n :
                  t[Len(t) - n + k] = Join(lead \o <<ret.val[k]>>, <<"/">>)

C6_LeavesAndTrunksReturned ==
  /\ ret.fresh /\ ret.object /\ ~ret.completeLeaves
  /\ Len(ret.leaves) >= 2
  /\ Len(ret.trunks) >= 2
  /\ Cardinality(Range(FirstSegments(ret.trunks))) >= 2

\* C7: for N distinct names fullPermutation returns exactly the orderings of
\* the subsets of size 1..N-1, each once, grouped by increasing size.
C7_OrderingsOfProperSubsets ==
  (/\ lastPerm.valid
   /\ lastPerm.out.tag = "ok"
   /\ Cardinality(Range(lastPerm.strs)) = Len(lastPerm.strs)) =>
     LET res == lastPerm.out.val
         n == Len(lastPerm.strs)
     IN  /\ Range(res) = {q \in InjectiveSeqs(Range(lastPerm.strs), n - 1) : Len(q) >= 1}
         /\ Cardinality(Range(res)) = Len(res)
         /\ \A k, l \in 1..Len(res) : k < l => Len(res[k]) <= Len(res[l])

C7_ThreeNames ==
  /\ lastPerm.valid
  /\ lastPerm.strs = <<<<"a">>, <<"b">>, <<"c">>>>
  /\ Len(lastPerm.out.val) = 9
  /\ <<<<"c">>, <<"a">>>> \in Range(lastPerm.out.val)

\* C8: every CompleteQuery request ends by returning a completion list or an
\* error value: no reachable state aborts the call.
C8_CompleteQueryNeverAborts ==
  request = "CompleteQuery" => pc # "panic"

\* C9: listArguments returns an error value, and never aborts, whenever the
\* decoded response disagrees with the query node it is walked against.
C9_ShapeMismatchIsAnError ==
  (/\ lastList.valid
   /\ lastList.answered
   /\ ~Conforms(lastList.resp, live[lastList.sent].query)) =>
     lastList.out.tag = "err"

\* C10: a field with arguments and at least one live value is never absent
\* from the output: each value yields trunks fieldName/v/child, or, on an
\* empty recursion result, the field still appears at this level.
C10_ListedFieldAppears ==
  (ret.fresh /\ ret.object) =>
     \A name \in ret.listed :
        \/ name \in Range(ret.leaves)
        \/ name \in Range(FirstSegments(ret.val))

\* C11: a field without arguments is placed in the leaf group only when its
\* sub-type has no further selectable children (Scalar, Enum, or an Object
\* that found neither a leaf nor a trunk) or the budget is exhausted at the
\* child, whatever completeLeaves is: an Object sub-type with a completable
\* field produces trunks fieldName/child.
C11_LeafOnlyWithoutChildren ==
  (/\ ret.fresh
   /\ pc = "running"
   /\ Len(stack) > 0
   /\ Top.phase = "fields"
   /\ Top.idx > 1
   /\ Len(FieldsOf(Top.root)[Top.idx - 1].args) = 0) =>
     LET name == FieldsOf(Top.root)[Top.idx - 1].name
         selectable == ret.object /\ Len(ret.leaves) + Len(ret.trunks) > 0
     IN  /\ name \in Range(Top.leaves) => ~selectable
         /\ selectable =>
               /\ name \notin Range(Top.leaves)
               /\ \A k \in 1..Len(ret.val) :
                     Join(<<name, ret.val[k]>>, <<"/">>) \in Range(Top.trunks)
               /\ name \in Range(FirstSegments(Top.trunks))

\* C12: in every activation of completeQuery the context's visited set
\* holds the name of the type being completed, the root Namespace type
\* included, so no type is expanded twice along one recursion path.
C12_VisitedHoldsCompletedType ==
  /\ \A i \in 1..Len(stack) : stack[i].root \in stack[i].ctx.visitedTypes
  /\ \A i, j \in 1..Len(stack) : i # j => stack[i].root # stack[j].root

====
